---- MODULE Spec2Model ----
(***************************************************************************)
(* Box pruning (sweep-and-prune broad phase), IceBoxPruning.cpp.           *)
(*                                                                         *)
(* A 32-bit word (union FloatOrInt32) is represented by the value of its   *)
(* sdword member s, an integer in -2^31 .. 2^31-1.  A float is the word    *)
(* holding its IEEE-754 bit pattern: sign bit, then 31 magnitude bits.     *)
(***************************************************************************)
EXTENDS Integers, Sequences, FiniteSets, TLC

VARIABLES
    \* ---- float key encoder harness
    fa, fb,          \* two input floats (bit patterns)
    ma, mb,          \* their keys
    mpc,             \* "input" | "scalar" | "sse"
    \* ---- pair output buffer and its host Container
    mem,             \* the heap block the buffer's pointers point into
    host,            \* Container: mEntries (offset into mem), mCurNbEntries, mMaxNbEntries
    pob,             \* PairOutputBuffer: mBegin, mEnd, mHighWatermark (offsets into mem)
    ppc,             \* "host" | "active" | "returned"
    junk,            \* the value an uninitialised word happens to hold
    orig,            \* ghost: the words the host held before the buffer took over
    emitted,         \* ghost: every word written through ReportIntersections, in order
    oob,             \* ghost: a word was written outside the allocated block
    nreports,        \* ghost: number of ReportIntersections calls so far
    \* ---- the two entry points
    entry,           \* "complete" | "bipartite"
    kernel,          \* "Intrinsics" | "SSE2" | "AVX": the kernel the build / CPU selects
    list0, list1,    \* the caller's boxes (list1 only for the bipartite call)
    Remap, Remap1,   \* the sorters' ranks (Remap1 only for the bipartite call)
    BoxSOA,          \* complete: the arena, six streams of nbpad words each
    nbpad,           \* complete: words per stream
    BoxList0, BoxList1, \* bipartite: the sorted copies, one sentinel slot each
    ks,              \* loop state of the kernel / of the sweep
    epc,             \* position in the call
    ret              \* the call's return value

mungeVars == <<fa, fb, ma, mb, mpc>>
pobVars   == <<mem, host, pob, ppc, junk, orig, emitted, oob, nreports>>
entryVars == <<entry, kernel, list0, list1, Remap, Remap1, BoxSOA, nbpad,
               BoxList0, BoxList1, ks, epc, ret>>
vars      == <<fa, fb, ma, mb, mpc, mem, host, pob, ppc, junk, orig, emitted, oob, nreports,
               entry, kernel, list0, list1, Remap, Remap1, BoxSOA, nbpad,
               BoxList0, BoxList1, ks, epc, ret>>

(***************************************************************************)
(* 32-bit words                                                            *)
(***************************************************************************)
\* a sequence given as a function, with its elements computed
AsSeq(f) == f \o <<>>

MaxInt32 == 2147483647
MinInt32 == -2147483647 - 1

SignBit(s) == IF s < 0 THEN 1 ELSE 0
\* bits 0..30 of the word
Low31(s) == IF s < 0 THEN (s + 2147483647) + 1 ELSE s
FromBits(sign, low) == IF sign = 1 THEN (low - 2147483647) - 1 ELSE low

RECURSIVE Xor31(_, _, _)
Xor31(a, b, n) ==
    IF n = 0 THEN 0
    ELSE IF b = 0 THEN a
    ELSE (((a % 2) + (b % 2)) % 2) + 2 * Xor31(a \div 2, b \div 2, n - 1)

RECURSIVE And31(_, _, _)
And31(a, b, n) ==
    IF n = 0 \/ a = 0 \/ b = 0 THEN 0
    ELSE ((a % 2) * (b % 2)) + 2 * And31(a \div 2, b \div 2, n - 1)

\* a ^ b on 32-bit words
Xor32(a, b) ==
    FromBits((SignBit(a) + SignBit(b)) % 2, Xor31(Low31(a), Low31(b), 31))
\* a & b on 32-bit words
And32(a, b) ==
    FromBits(SignBit(a) * SignBit(b), And31(Low31(a), Low31(b), 31))
\* s >> 31 on an sdword (arithmetic shift): all ones or all zeros
Sar31(s) == IF s < 0 THEN -1 ELSE 0
\* unsigned comparison of two 32-bit words
ULessEq(a, b) ==
    IF SignBit(a) = SignBit(b) THEN a <= b ELSE SignBit(a) = 0

(***************************************************************************)
(* Floats (finite, non-NaN), by bit pattern                                *)
(***************************************************************************)
\* the word of a float given sign, biased exponent and 23-bit mantissa
F32(sign, expo, mant) == FromBits(sign, expo * 8388608 + mant)

PosZero == F32(0, 0, 0)
NegZero == F32(1, 0, 0)
PosTiny == F32(0, 0, 1)
NegTiny == F32(1, 0, 1)
PosOne  == F32(0, 127, 0)
NegOne  == F32(1, 127, 0)
PosTwo  == F32(0, 128, 0)
NegTwo  == F32(1, 128, 0)
PosThree == F32(0, 128, 4194304)
FltMax  == F32(0, 254, 8388607)
NegFltMax == F32(1, 254, 8388607)

\* the position of a float on the real line, up to a monotone map:
\* magnitudes order like their bit patterns, and -0 = +0
FloatOrd(f) == IF f < 0 THEN 0 - Low31(f) ELSE f
\* a < b and a <= b on floats
FloatLess(a, b) == FloatOrd(a) < FloatOrd(b)
FloatLessEq(a, b) == FloatOrd(a) <= FloatOrd(b)
\* f + 0.0f under round-to-nearest: -0 + +0 = +0, everything else unchanged
FloatAddZero(f) == IF f = NegZero THEN PosZero ELSE f

(***************************************************************************)
(* Float key encoder                                                       *)
(***************************************************************************)
\* variant: the encoder without the + 0.0f
MungeFloat_NoCanon(f) ==
    LET toggle == And32(Sar31(f), MaxInt32)
    IN  Xor32(f, toggle)

MungeFloat(f) ==
    LET s == FloatAddZero(f)
        toggle == And32(Sar31(s), MaxInt32)
    IN  Xor32(s, toggle)

\* four lanes at once
MungeFloatSSE(v) ==
    AsSeq([k \in 1..4 |->
            LET f == FloatAddZero(v[k])
                sign == Sar31(f)
                toggle == And32(sign, MaxInt32)
            IN  Xor32(f, toggle)])

FloatSamples ==
    {PosZero, NegZero, PosTiny, NegTiny, PosOne, NegOne, PosTwo, NegTwo,
     PosThree, FltMax, NegFltMax}

MungeInit ==
    /\ fa \in FloatSamples
    /\ fb \in FloatSamples
    /\ ma = 0
    /\ mb = 0
    /\ mpc = "input"

MungeIdle ==
    /\ fa = 0 /\ fb = 0 /\ ma = 0 /\ mb = 0 /\ mpc = "idle"

EntryIdle ==
    /\ entry = "idle" /\ kernel = "none" /\ list0 = <<>> /\ list1 = <<>>
    /\ Remap = <<>> /\ Remap1 = <<>> /\ BoxSOA = <<>> /\ nbpad = 0
    /\ BoxList0 = <<>> /\ BoxList1 = <<>> /\ ks = <<>> /\ epc = "idle" /\ ret = FALSE

\* the scalar encoder applied to both inputs
MungeScalar ==
    /\ mpc = "input"
    /\ ma' = MungeFloat(fa)
    /\ mb' = MungeFloat(fb)
    /\ mpc' = "scalar"
    /\ UNCHANGED <<fa, fb>>
    /\ UNCHANGED pobVars
    /\ UNCHANGED entryVars

\* the vector encoder applied to a register holding both inputs
MungeVector ==
    /\ mpc = "input"
    /\ LET r == MungeFloatSSE(<<fa, fb, fb, fa>>)
       IN  /\ ma' = r[1]
           /\ mb' = r[2]
           /\ r[3] = r[2]
           /\ r[4] = r[1]
    /\ mpc' = "sse"
    /\ UNCHANGED <<fa, fb>>
    /\ UNCHANGED pobVars
    /\ UNCHANGED entryVars


(***************************************************************************)
(* Pair output buffer                                                      *)
(*                                                                         *)
(* Pointers are offsets into the heap block mem (offset 0 is the block's   *)
(* first word, mem[1]).  A freshly allocated word holds junk.              *)
(***************************************************************************)
kSlack == 16

Max(a, b) == IF a >= b THEN a ELSE b
Min(a, b) == IF a <= b THEN a ELSE b

\* the word at an offset of a block; outside the block the read is wild
ReadWord(m, off) == IF off >= 0 /\ off < Len(m) THEN m[off + 1] ELSE junk

\* ws stored at offsets at, at+1, ... of m; stores outside the block are lost
WriteWords(m, at, ws) ==
    AsSeq([k \in 1..Len(m) |->
            IF k - 1 >= at /\ k - 1 < at + Len(ws) THEN ws[k - at] ELSE m[k]])

\* Container::Resize(needed): storage for at least `needed` words, entries kept
ContainerResize(h, m, needed) ==
    [host |-> [h EXCEPT !.mMaxNbEntries = needed, !.mEntries = 0],
     mem  |-> AsSeq([k \in 1..needed |->
                 IF k <= h.mCurNbEntries THEN ReadWord(m, h.mEntries + k - 1)
                 ELSE junk])]

\* the words a Container holds
ContainerWords(h, m) ==
    AsSeq([k \in 1..h.mCurNbEntries |-> ReadWord(m, h.mEntries + k - 1)])

\* PairOutputBuffer::PairOutputBuffer(host)
PairOutputBuffer(h, m) ==
    LET r == IF h.mMaxNbEntries < kSlack
             THEN ContainerResize(h, m, kSlack)
             ELSE [host |-> h, mem |-> m]
        begin == r.host.mEntries + r.host.mCurNbEntries
    IN  [host |-> r.host,
         mem  |-> r.mem,
         pob  |-> [mBegin |-> begin,
                   mEnd |-> begin + r.host.mCurNbEntries,
                   mHighWatermark |-> begin + r.host.mMaxNbEntries - kSlack]]

\* PairOutputBuffer::~PairOutputBuffer()
ReturnStorage(p, h) ==
    [h EXCEPT !.mEntries = p.mBegin,
              !.mCurNbEntries = p.mEnd - p.mBegin,
              !.mMaxNbEntries = (p.mHighWatermark + kSlack) - p.mBegin]

\* variant: a new block of twice the entries, without the slack
GrowPairOutputBuffer_NoSlack(p, m) ==
    LET numEntries == p.mEnd - p.mBegin
        newCapacity == numEntries * 2
    IN  [mem |-> AsSeq([k \in 1..newCapacity |->
                    IF k <= numEntries THEN ReadWord(m, p.mBegin + k - 1) ELSE junk]),
         pob |-> [mBegin |-> 0,
                  mEnd |-> numEntries,
                  mHighWatermark |-> newCapacity - kSlack],
         bad |-> p.mBegin # 0]

\* GrowPairOutputBuffer: a new block of twice the entries plus twice the slack,
\* the entries copied, the old block deleted through mBegin
GrowPairOutputBuffer(p, m) ==
    LET numEntries == p.mEnd - p.mBegin
        newCapacity == numEntries * 2 + 2 * kSlack
    IN  [mem |-> AsSeq([k \in 1..newCapacity |->
                    IF k <= numEntries THEN ReadWord(m, p.mBegin + k - 1) ELSE junk]),
         pob |-> [mBegin |-> 0,
                  mEnd |-> numEntries,
                  mHighWatermark |-> newCapacity - kSlack],
         bad |-> p.mBegin # 0]

\* _BitScanForward: index of the lowest set bit of a non-zero word
RECURSIVE Ctz32(_)
Ctz32(x) == IF x % 2 = 1 THEN 0 ELSE 1 + Ctz32(x \div 2)

\* index of the highest set bit of a non-zero mask
RECURSIVE HighBit(_)
HighBit(x) == IF x <= 1 THEN 0 ELSE 1 + HighBit(x \div 2)

\* variant: the lanes of a batch stored from the highest mask bit down
RECURSIVE ReportedWords_HighFirst(_, _, _)
ReportedWords_HighFirst(remap_id0, remap_base, mask) ==
    LET w == <<remap_id0, remap_base[HighBit(mask)]>>
        rest == mask - 2 ^ HighBit(mask)
    IN  IF rest = 0 THEN w ELSE w \o ReportedWords_HighFirst(remap_id0, remap_base, rest)

\* the do-while of ReportIntersections: the words it stores for a mask
RECURSIVE ReportedWords(_, _, _)
ReportedWords(remap_id0, remap_base, mask) ==
    LET w == <<remap_id0, remap_base[Ctz32(mask)]>>
        rest == And32(mask, mask - 1)
    IN  IF rest = 0 THEN w ELSE w \o ReportedWords(remap_id0, remap_base, rest)

\* ReportIntersections(POB, remap_id0, remap_base, mask), mask # 0;
\* remap_base is the part of Remap the mask's bits index, as a function of the bit
ReportIntersections(p, m, remap_id0, remap_base, mask) ==
    LET g == IF p.mEnd > p.mHighWatermark
             THEN GrowPairOutputBuffer(p, m)
             ELSE [mem |-> m, pob |-> p, bad |-> FALSE]
        ws == ReportedWords(remap_id0, remap_base, mask)
        Pairs == g.pob.mEnd
    IN  [mem |-> WriteWords(g.mem, Pairs, ws),
         pob |-> [g.pob EXCEPT !.mEnd = Pairs + Len(ws)],
         words |-> ws,
         bad |-> g.bad \/ Pairs < 0 \/ Pairs + Len(ws) > Len(g.mem)]

\* ---- harness: a host container, a buffer built on it, batches, destruction
MaxHostWords == 2
MaxExtraCap == 2
MaxReports == 3

ReportMasks == {1, 128, 5, 15, 170, 255}
HarnessRemap == [b \in 0..7 |-> 10 + b]
HostWord(k) == 100 + k

PobInit ==
    /\ junk \in {0, HostWord(1)}
    /\ \E n \in 0..MaxHostWords :
       \E cap \in {MaxHostWords} \cup (kSlack..(kSlack + MaxExtraCap)) :
          /\ host = [mEntries |-> 0, mCurNbEntries |-> n, mMaxNbEntries |-> cap]
          /\ mem = [k \in 1..cap |-> IF k <= n THEN HostWord(k) ELSE junk]
          /\ orig = [words |-> [k \in 1..n |-> HostWord(k)], cap |-> cap]
    /\ pob = <<>>
    /\ ppc = "host"
    /\ emitted = <<>>
    /\ oob = FALSE
    /\ nreports = 0

PobIdle ==
    /\ mem = <<>> /\ host = <<>> /\ pob = <<>> /\ ppc = "idle" /\ junk = 0
    /\ orig = <<>> /\ emitted = <<>> /\ oob = FALSE /\ nreports = 0

PobConstruct ==
    /\ ppc = "host"
    /\ LET r == PairOutputBuffer(host, mem)
       IN  /\ host' = r.host
           /\ mem' = r.mem
           /\ pob' = r.pob
    /\ ppc' = "active"
    /\ UNCHANGED <<junk, orig, emitted, oob, nreports>>
    /\ UNCHANGED mungeVars
    /\ UNCHANGED entryVars

PobReport ==
    /\ ppc = "active"
    /\ nreports < MaxReports
    /\ \E mask \in ReportMasks :
         LET r == ReportIntersections(pob, mem, nreports, HarnessRemap, mask)
         IN  /\ mem' = r.mem
             /\ pob' = r.pob
             /\ emitted' = emitted \o r.words
             /\ oob' = (oob \/ r.bad)
    /\ nreports' = nreports + 1
    /\ UNCHANGED <<host, ppc, junk, orig>>
    /\ UNCHANGED mungeVars
    /\ UNCHANGED entryVars

PobDestroy ==
    /\ ppc = "active"
    /\ host' = ReturnStorage(pob, host)
    /\ ppc' = "returned"
    /\ UNCHANGED <<mem, pob, junk, orig, emitted, oob, nreports>>
    /\ UNCHANGED mungeVars
    /\ UNCHANGED entryVars

PobNext == PobConstruct \/ PobReport \/ PobDestroy
InitPOB == PobInit /\ MungeIdle /\ EntryIdle
SpecPOB == InitPOB /\ [][PobNext]_vars

\* C6: over an empty host of capacity >= kSlack, every ReportIntersections call
\* stores only inside the allocated block [mBegin, mHighWatermark + kSlack),
\* leaves mBegin <= mEnd <= mHighWatermark + kSlack, and the words emitted so far
\* (before and after any growth) are the buffer's contents, in order.
C6_SlackSafety ==
    (ppc = "active" /\ orig.words = <<>> /\ orig.cap >= kSlack) =>
        /\ ~oob
        /\ pob.mBegin = 0
        /\ pob.mHighWatermark + kSlack = Len(mem)
        /\ pob.mBegin <= pob.mEnd
        /\ pob.mEnd <= pob.mHighWatermark + kSlack
        /\ pob.mEnd - pob.mBegin = Len(emitted)
        /\ \A k \in 1..Len(emitted) : ReadWord(mem, pob.mBegin + k - 1) = emitted[k]

\* a full 8-pair batch has been stored after the buffer had to grow
C6_Witness ==
    /\ ppc = "active"
    /\ orig.words = <<>>
    /\ orig.cap >= kSlack
    /\ nreports >= 2
    /\ Len(mem) > orig.cap
    /\ Len(emitted) >= 18
    /\ pob.mEnd = Len(emitted)

\* C10 (as stated): after destruction the host holds its original words followed
\* by the emitted words, counts them all, and owns the range it may write.
C10_StorageReturned ==
    (ppc = "returned" /\ orig.cap >= kSlack) =>
        /\ ContainerWords(host, mem) = orig.words \o emitted
        /\ host.mCurNbEntries = Len(orig.words) + Len(emitted)
        /\ host.mEntries = 0
        /\ host.mEntries + host.mMaxNbEntries <= Len(mem)
        /\ ~oob

MungeNext == MungeScalar \/ MungeVector
InitMunge == MungeInit /\ PobIdle /\ EntryIdle
SpecMunge == InitMunge /\ [][MungeNext]_vars

Box(x0, x1, y0, y1, z0, z1) ==
    [minx |-> x0, maxx |-> x1, miny |-> y0, maxy |-> y1, minz |-> z0, maxz |-> z1]

\* the boxes inputs are built from: touching faces, signed zeros, equal MinX,
\* disjoint on one axis only, and a box spanning the whole finite range
Palette ==
    << Box(PosZero, PosTwo, PosZero, PosOne, PosZero, PosOne),
       Box(NegOne, NegZero, PosOne, PosTwo, NegZero, PosZero),
       Box(PosOne, PosThree, PosTwo, PosThree, PosZero, PosOne),
       Box(NegFltMax, FltMax, NegFltMax, FltMax, NegFltMax, FltMax),
       Box(PosTwo, PosTwo, PosZero, PosTwo, PosTwo, PosThree) >>

MaxN == 17
Period == 2

\* a list of n boxes repeating a pattern of Period palette entries
PatternList(n, pat) == AsSeq([k \in 1..n |-> Palette[pat[((k - 1) % Period) + 1]]])

\* the inclusive overlap predicate on the caller's boxes, axis by axis
OverlapX(a, b) == FloatLessEq(a.minx, b.maxx) /\ FloatLessEq(b.minx, a.maxx)
OverlapY(a, b) == FloatLessEq(a.miny, b.maxy) /\ FloatLessEq(b.miny, a.maxy)
OverlapZ(a, b) == FloatLessEq(a.minz, b.maxz) /\ FloatLessEq(b.minz, a.maxz)
Overlap(a, b) == OverlapX(a, b) /\ OverlapY(a, b) /\ OverlapZ(a, b)

\* PRUNING_SORTER (RadixSort): the ranks of n floats, in ascending order of
\* value, equal values in input order.  keys is 1-based, ranks hold 0-based indices.
RadixSort(keys) ==
    LET n == Len(keys)
        Before(x, e) == \/ FloatLess(keys[x], keys[e])
                        \/ (~FloatLess(keys[e], keys[x]) /\ x < e)
        RankOf(e) == Cardinality({x \in 1..n : Before(x, e)})
    IN  AsSeq([p \in 1..n |-> (CHOOSE e \in 1..n : RankOf(e) = p - 1) - 1])

\* PosList: the boxes' mMin.x, then FLT_MAX
PosList(list) ==
    AsSeq([k \in 1..(Len(list) + 1) |-> IF k <= Len(list) THEN list[k].minx ELSE FltMax])

\* nbpad = (nb+15) & ~7
PadCount(nb) == And32(nb + 15, -8)

\* the value written to padding slot of stream s (0 MaxX, 1 MinX, 2 MaxY, 3 MinY,
\* 4 MaxZ, 5 MinZ)
PadWord(s) ==
    CASE s = 0 -> MinInt32
      [] s = 1 -> MaxInt32
      [] s = 2 -> NegFltMax
      [] s = 3 -> FltMax
      [] s = 4 -> NegFltMax
      [] s = 5 -> FltMax

\* step 3 of CompleteBoxPruning: the arena's 6*np words; slot i of stream s is
\* word s*np + i.  Slots below nb & ~3 go through the 4-wide transpose and
\* MungeFloatSSE, the rest through MungeFloat, slots from nb on are padding.
BuildSOA(list, remap, nb, np) ==
    LET sorted == AsSeq([i \in 1..nb |-> list[remap[i] + 1]])
        nb4 == And32(nb, -4)
        MinX4 == AsSeq([g \in 1..(nb4 \div 4) |->
                    MungeFloatSSE([l \in 1..4 |-> sorted[4 * (g - 1) + l].minx])])
        MaxX4 == AsSeq([g \in 1..(nb4 \div 4) |->
                    MungeFloatSSE([l \in 1..4 |-> sorted[4 * (g - 1) + l].maxx])])
    IN  AsSeq([a \in 1..(6 * np) |->
            LET s == (a - 1) \div np
                i == (a - 1) % np
            IN  IF i >= nb THEN PadWord(s)
                ELSE IF i < nb4
                     THEN CASE s = 0 -> MaxX4[(i \div 4) + 1][(i % 4) + 1]
                            [] s = 1 -> MinX4[(i \div 4) + 1][(i % 4) + 1]
                            [] s = 2 -> sorted[i + 1].maxy
                            [] s = 3 -> sorted[i + 1].miny
                            [] s = 4 -> sorted[i + 1].maxz
                            [] s = 5 -> sorted[i + 1].minz
                     ELSE CASE s = 0 -> MungeFloat(sorted[i + 1].maxx)
                            [] s = 1 -> MungeFloat(sorted[i + 1].minx)
                            [] s = 2 -> sorted[i + 1].maxy
                            [] s = 3 -> sorted[i + 1].miny
                            [] s = 4 -> sorted[i + 1].maxz
                            [] s = 5 -> sorted[i + 1].minz])

\* PtrAddBytes(BoxBase + idx, k*BoxBytesP): slot idx of the stream k strides from
\* MinY (-3 MaxX, -2 MinX, -1 MaxY, 0 MinY, 1 MaxZ, 2 MinZ); BoxBase = BoxSOA + 3 strides
Rd(idx, k) ==
    LET a == 3 * nbpad + idx + k * nbpad
    IN  IF a >= 0 /\ a < Len(BoxSOA) THEN BoxSOA[a + 1] ELSE junk

\* Remap[idx]
RemapRd(idx) == IF idx >= 0 /\ idx < Len(Remap) THEN Remap[idx + 1] ELSE junk

\* movmskps: the mask whose bit l is set for each lane l of S
RECURSIVE MoveMask(_)
MoveMask(S) ==
    IF S = {} THEN 0
    ELSE LET l == CHOOSE x \in S : TRUE IN 2 ^ l + MoveMask(S \ {l})

\* highest Remap index a step's ReportIntersections calls read
RepsRemapHi(i, reps) ==
    LET S == {i} \cup {reps[q].base + HighBit(reps[q].mask) : q \in 1..Len(reps)}
    IN  CHOOSE x \in S : \A y \in S : y <= x

\* the ReportIntersections calls of one outer iteration, applied in order
RECURSIVE ApplyReports(_, _, _, _, _)
ApplyReports(p, m, id0, reps, q) ==
    IF q > Len(reps) THEN [pob |-> p, mem |-> m, words |-> <<>>, bad |-> FALSE]
    ELSE LET r == ReportIntersections(p, m, id0,
                      [b \in 0..7 |-> RemapRd(reps[q].base + b)], reps[q].mask)
             rest == ApplyReports(r.pob, r.mem, id0, reps, q + 1)
         IN  [pob |-> rest.pob, mem |-> rest.mem,
              words |-> r.words \o rest.words, bad |-> r.bad \/ rest.bad]

(***************************************************************************)
(* BoxPruningKernelIntrinsics                                              *)
(***************************************************************************)
\* variant: while (RunningPtr->MinX < MinLimit) RunningPtr++, no post-increment
AdvanceRunningPtrIntrinsics_NoPostInc(r, MinLimit) ==
    LET S == {x \in r..(3 * nbpad) : ~(Rd(x, -2) < MinLimit)}
    IN  CHOOSE x \in S : \A y \in S : x <= y

\* while (RunningPtr++ ->MinX < MinLimit): the pointer ends one past the first
\* slot whose MinX is not below MinLimit
RECURSIVE AdvanceRunningPtrIntrinsics(_, _)
AdvanceRunningPtrIntrinsics(r, MinLimit) ==
    IF r < 3 * nbpad /\ Rd(r, -2) < MinLimit
    THEN AdvanceRunningPtrIntrinsics(r + 1, MinLimit)
    ELSE r + 1

\* variant: the Y/Z tests with strict compares
CmpIntrinsics_Strict(i, j) ==
    /\ FloatLess(Rd(i, 0), Rd(j, -1))
    /\ FloatLess(Rd(j, 0), Rd(i, -1))
    /\ FloatLess(Rd(i, 2), Rd(j, 1))
    /\ FloatLess(Rd(j, 2), Rd(i, 1))

\* one lane of Cmp: cmpnlt(Box1MaxY, Box0MinY) & cmple(Box1MinY, Box0MaxY)
\*                & cmpnlt(Box1MaxZ, Box0MinZ) & cmple(Box1MinZ, Box0MaxZ)
CmpIntrinsics(i, j) ==
    /\ ~FloatLess(Rd(j, -1), Rd(i, 0))
    /\ FloatLessEq(Rd(j, 0), Rd(i, -1))
    /\ ~FloatLess(Rd(j, 1), Rd(i, 2))
    /\ FloatLessEq(Rd(j, 2), Rd(i, 1))

\* the main loop: groups of 4 whose last MinX is inside the X window
RECURSIVE MainLoopIntrinsics(_, _, _, _)
MainLoopIntrinsics(i, j, MaxLimit, reps) ==
    IF j + 3 < 3 * nbpad /\ Rd(j + 3, -2) <= MaxLimit
    THEN LET Mask == MoveMask({l \in 0..3 : CmpIntrinsics(i, j + l)})
         IN  MainLoopIntrinsics(i, j + 4, MaxLimit,
                 IF Mask # 0 THEN Append(reps, [base |-> j, mask |-> Mask]) ELSE reps)
    ELSE [j |-> j, reps |-> reps]

\* variant: the tail without the Box1MinX > MaxLimit lane mask
TailIntrinsics_NoOutsideMask(i, j, MaxLimit) ==
    IF Rd(j, -2) <= MaxLimit
    THEN MoveMask({l \in 0..3 : CmpIntrinsics(i, j + l)})
    ELSE 0

\* the tail group: lanes whose MinX is past MaxLimit are masked out
TailIntrinsics(i, j, MaxLimit) ==
    IF Rd(j, -2) <= MaxLimit
    THEN MoveMask({l \in 0..3 : ~(Rd(j + l, -2) > MaxLimit) /\ CmpIntrinsics(i, j + l)})
    ELSE 0

\* one iteration of the outer loop
BoxPruningKernelIntrinsics(k) ==
    LET i == k.Box0Ptr
        MinLimit == Rd(i, -2)
        r == AdvanceRunningPtrIntrinsics(k.RunningPtr, MinLimit)
    IN  IF r >= Len(list0)
        THEN [done |-> TRUE, reps |-> <<>>,
              ks |-> [outer |-> i, Box0Ptr |-> i, RunningPtr |-> r, scanLo |-> r,
                      rdLo |-> Min(i, k.RunningPtr), rdHi |-> Max(i, r - 1), rmHi |-> 0]]
        ELSE LET MaxLimit == Rd(i, -3)
                 ml == MainLoopIntrinsics(i, r, MaxLimit, <<>>)
                 tm == TailIntrinsics(i, ml.j, MaxLimit)
                 reps == IF tm # 0 THEN Append(ml.reps, [base |-> ml.j, mask |-> tm])
                         ELSE ml.reps
             IN  [done |-> ~(i + 1 < Len(list0)), reps |-> reps,
                  ks |-> [outer |-> i, Box0Ptr |-> i + 1, RunningPtr |-> r, scanLo |-> r,
                          rdLo |-> Min(i, k.RunningPtr),
                          rdHi |-> Max(i, ml.j + 3),
                          rmHi |-> RepsRemapHi(i, reps)]]



(***************************************************************************)
(* BoxPruningKernelSSE2                                                    *)
(***************************************************************************)
\* AdvanceRunningPtr: cmp eax,[edi+2*edx]; lea edi,[edi+4]; jg
\* variant: the loop goes on while MinLimit >= MinX (jge)
RECURSIVE AdvanceRunningPtrSSE2_SkipTies(_, _)
AdvanceRunningPtrSSE2_SkipTies(r, MinLimit) ==
    IF r < 3 * nbpad /\ MinLimit >= Rd(r, -2)
    THEN AdvanceRunningPtrSSE2_SkipTies(r + 1, MinLimit)
    ELSE r + 1

RECURSIVE AdvanceRunningPtrSSE2(_, _)
AdvanceRunningPtrSSE2(r, MinLimit) ==
    IF r < 3 * nbpad /\ MinLimit > Rd(r, -2)
    THEN AdvanceRunningPtrSSE2(r + 1, MinLimit)
    ELSE r + 1

\* one lane of xmm0 after the four compares (cmpnltps / cmpleps)
CmpSSE2(i, j) ==
    /\ ~FloatLess(Rd(j, -1), Rd(i, 0))
    /\ FloatLessEq(Rd(j, 0), Rd(i, -1))
    /\ ~FloatLess(Rd(j, 1), Rd(i, 2))
    /\ FloatLessEq(Rd(j, 2), Rd(i, 1))

\* MainLoop: until MaxLimit < MinX[j+3]
RECURSIVE MainLoopSSE2(_, _, _, _)
MainLoopSSE2(i, j, MaxLimit, reps) ==
    IF j + 3 < 3 * nbpad /\ ~(MaxLimit < Rd(j + 3, -2))
    THEN LET Mask == MoveMask({l \in 0..3 : CmpSSE2(i, j + l)})
         IN  MainLoopSSE2(i, j + 4, MaxLimit,
                 IF Mask # 0 THEN Append(reps, [base |-> j, mask |-> Mask]) ELSE reps)
    ELSE [j |-> j, reps |-> reps]

\* ProcessTail: pcmpgtd forms OutsideMask, andnps removes its lanes
TailSSE2(i, j, MaxLimit) ==
    IF MaxLimit < Rd(j, -2) THEN 0
    ELSE MoveMask({l \in 0..3 : ~(Rd(j + l, -2) > MaxLimit) /\ CmpSSE2(i, j + l)})

\* one pass from OuterLoop to LoopFooter (or to AllDone)
BoxPruningKernelSSE2(k) ==
    LET i == k.Box0Ptr
        MinLimit == Rd(i, -2)
        r == AdvanceRunningPtrSSE2(k.RunningPtr, MinLimit)
    IN  IF r >= Len(list0)
        THEN [done |-> TRUE, reps |-> <<>>,
              ks |-> [outer |-> i, Box0Ptr |-> i, RunningPtr |-> k.RunningPtr, scanLo |-> r,
                      rdLo |-> Min(i, k.RunningPtr), rdHi |-> Max(i, r - 1), rmHi |-> 0]]
        ELSE LET MaxLimit == Rd(i, -3)
                 ml == MainLoopSSE2(i, r, MaxLimit, <<>>)
                 tm == TailSSE2(i, ml.j, MaxLimit)
                 reps == IF tm # 0 THEN Append(ml.reps, [base |-> ml.j, mask |-> tm])
                         ELSE ml.reps
             IN  [done |-> ~(i + 1 < Len(list0)), reps |-> reps,
                  ks |-> [outer |-> i, Box0Ptr |-> i + 1, RunningPtr |-> r, scanLo |-> r,
                          rdLo |-> Min(i, k.RunningPtr),
                          rdHi |-> Max(i, ml.j + 3),
                          rmHi |-> RepsRemapHi(i, reps)]]

(***************************************************************************)
(* BoxPruningKernelAVX                                                     *)
(***************************************************************************)
\* variant: a table of all-ones lane masks
PreAlignMasks_AllOnes(t) == -1

\* PreAlignMasks[t]: eight zero words, then eight all-ones words
PreAlignMasks(t) == IF t < 8 THEN 0 ELSE -1

RECURSIVE AdvanceRunningPtrAVX(_, _)
AdvanceRunningPtrAVX(r, MinLimit) ==
    IF r < 3 * nbpad /\ MinLimit > Rd(r, -2)
    THEN AdvanceRunningPtrAVX(r + 1, MinLimit)
    ELSE r + 1

\* one lane of ymm0 after the four compares (vcmpleps / vcmpgeps, the outer box
\* as first operand)
CmpAVX(i, j) ==
    /\ FloatLessEq(Rd(i, 0), Rd(j, -1))
    /\ FloatLessEq(Rd(j, 0), Rd(i, -1))
    /\ FloatLessEq(Rd(i, 2), Rd(j, 1))
    /\ FloatLessEq(Rd(j, 2), Rd(i, 1))

\* the first iteration: the pointer is aligned down to 32 bytes (8 slots) and the
\* lanes before the running pointer are cleared by the PreAlignMasks window
PreStepAVX(i, r) ==
    LET off == r % 8
        a == r - off
    IN  [j |-> a + 8,
         a |-> a,
         mask |-> MoveMask({l \in 0..7 :
                     PreAlignMasks(8 - off + l) < 0 /\ CmpAVX(i, a + l)})]

\* variant: the loop test looks at MinX[j] instead of MinX[j+7]
RECURSIVE MainLoopAVX_LookAtFirst(_, _, _, _)
MainLoopAVX_LookAtFirst(i, j, MaxLimit, reps) ==
    IF j + 7 < 3 * nbpad /\ ~(MaxLimit < Rd(j, -2))
    THEN LET Mask == MoveMask({l \in 0..7 : CmpAVX(i, j + l)})
         IN  MainLoopAVX_LookAtFirst(i, j + 8, MaxLimit,
                 IF Mask # 0 THEN Append(reps, [base |-> j, mask |-> Mask]) ELSE reps)
    ELSE [j |-> j, reps |-> reps]

\* MainLoop: until MaxLimit < MinX[j+7]
RECURSIVE MainLoopAVX(_, _, _, _)
MainLoopAVX(i, j, MaxLimit, reps) ==
    IF j + 7 < 3 * nbpad /\ ~(MaxLimit < Rd(j + 7, -2))
    THEN LET Mask == MoveMask({l \in 0..7 : CmpAVX(i, j + l)})
         IN  MainLoopAVX(i, j + 8, MaxLimit,
                 IF Mask # 0 THEN Append(reps, [base |-> j, mask |-> Mask]) ELSE reps)
    ELSE [j |-> j, reps |-> reps]

\* ProcessTail: two vpcmpgtd halves form the 256-bit OutsideMask
TailAVX(i, j, MaxLimit) ==
    IF MaxLimit < Rd(j, -2) THEN 0
    ELSE MoveMask({l \in 0..7 : ~(Rd(j + l, -2) > MaxLimit) /\ CmpAVX(i, j + l)})

\* one pass from OuterLoop to LoopFooter (or to AllDone)
BoxPruningKernelAVX(k) ==
    LET i == k.Box0Ptr
        MinLimit == Rd(i, -2)
        r == AdvanceRunningPtrAVX(k.RunningPtr, MinLimit)
    IN  IF r >= Len(list0)
        THEN [done |-> TRUE, reps |-> <<>>,
              ks |-> [outer |-> i, Box0Ptr |-> i, RunningPtr |-> k.RunningPtr, scanLo |-> r,
                      rdLo |-> Min(i, k.RunningPtr), rdHi |-> Max(i, r - 1), rmHi |-> 0]]
        ELSE LET MaxLimit == Rd(i, -3)
                 few == MaxLimit < Rd(r + 7, -2)
                 pre == PreStepAVX(i, r)
                 reps0 == IF ~few /\ pre.mask # 0
                          THEN <<[base |-> pre.a, mask |-> pre.mask]>> ELSE <<>>
                 ml == IF few THEN [j |-> r, reps |-> <<>>]
                       ELSE MainLoopAVX(i, pre.j, MaxLimit, reps0)
                 tm == TailAVX(i, ml.j, MaxLimit)
                 reps == IF tm # 0 THEN Append(ml.reps, [base |-> ml.j, mask |-> tm])
                         ELSE ml.reps
             IN  [done |-> ~(i + 1 < Len(list0)), reps |-> reps,
                  ks |-> [outer |-> i, Box0Ptr |-> i + 1, RunningPtr |-> r, scanLo |-> r,
                          rdLo |-> Min(Min(i, k.RunningPtr), IF few THEN r ELSE pre.a),
                          rdHi |-> Max(i, ml.j + 7),
                          rmHi |-> RepsRemapHi(i, reps)]]

(***************************************************************************)
(* CompleteBoxPruning                                                      *)
(***************************************************************************)
Kernels == {"Intrinsics", "SSE2", "AVX"}

CompleteInit ==
    /\ entry = "complete"
    /\ kernel \in Kernels
    /\ \E n \in 0..MaxN : \E pat \in [1..Period -> 1..Len(Palette)] :
         list0 = PatternList(n, pat)
    /\ list1 = <<>>
    /\ Remap = <<>> /\ Remap1 = <<>> /\ BoxSOA = <<>> /\ nbpad = 0
    /\ BoxList0 = <<>> /\ BoxList1 = <<>> /\ ks = <<>>
    /\ epc = "call"
    /\ ret = FALSE
    \* the caller's pairs container: empty, nothing allocated yet
    /\ host = [mEntries |-> 0, mCurNbEntries |-> 0, mMaxNbEntries |-> 0]
    /\ mem = <<>>
    /\ orig = [words |-> <<>>, cap |-> 0]
    /\ pob = <<>> /\ ppc = "host" /\ junk = 0
    /\ emitted = <<>> /\ oob = FALSE /\ nreports = 0

\* variant: no early return
CompleteChecks_Never(nb) == FALSE

\* "Checkings": if(!nb || !list) return false
CompleteChecks(nb) == nb = 0

\* the call up to the kernel: the checks, the output buffer, the sort, the arena
CompleteBoxPruningEntry ==
    /\ entry = "complete"
    /\ epc = "call"
    /\ IF CompleteChecks(Len(list0))
       THEN /\ ret' = FALSE
            /\ epc' = "done"
            /\ UNCHANGED <<Remap, BoxSOA, nbpad, ks, mem, host, pob, ppc>>
       ELSE LET nb == Len(list0)
                np == PadCount(nb)
                c  == PairOutputBuffer(host, mem)
                rm == RadixSort(PosList(list0))
            IN  /\ host' = c.host
                /\ mem' = c.mem
                /\ pob' = c.pob
                /\ ppc' = "active"
                /\ nbpad' = np
                /\ Remap' = rm
                /\ BoxSOA' = BuildSOA(list0, rm, nb, np)
                /\ ks' = [outer |-> -1, Box0Ptr |-> 0, RunningPtr |-> 0, scanLo |-> 0,
                          rdLo |-> 0, rdHi |-> 0, rmHi |-> 0]
                /\ epc' = "kernel"
                /\ UNCHANGED ret
    /\ UNCHANGED <<entry, kernel, list0, list1, Remap1, BoxList0, BoxList1>>
    /\ UNCHANGED <<junk, orig, emitted, oob, nreports>>
    /\ UNCHANGED mungeVars

\* one outer iteration of the selected kernel, with its ReportIntersections calls
KernelIteration(st) ==
    LET ap == ApplyReports(pob, mem, RemapRd(ks.Box0Ptr), st.reps, 1)
    IN  /\ ks' = st.ks
        /\ pob' = ap.pob
        /\ mem' = ap.mem
        /\ emitted' = emitted \o ap.words
        /\ oob' = (oob \/ ap.bad)
        /\ nreports' = nreports + Len(st.reps)
        /\ epc' = IF st.done THEN "exit" ELSE "kernel"
        /\ UNCHANGED <<entry, kernel, list0, list1, Remap, Remap1, BoxSOA, nbpad,
                       BoxList0, BoxList1, ret>>
        /\ UNCHANGED <<host, ppc, junk, orig>>
        /\ UNCHANGED mungeVars

StepIntrinsics ==
    /\ entry = "complete" /\ epc = "kernel" /\ kernel = "Intrinsics"
    /\ KernelIteration(BoxPruningKernelIntrinsics(ks))

StepSSE2 ==
    /\ entry = "complete" /\ epc = "kernel" /\ kernel = "SSE2"
    /\ KernelIteration(BoxPruningKernelSSE2(ks))

StepAVX ==
    /\ entry = "complete" /\ epc = "kernel" /\ kernel = "AVX"
    /\ KernelIteration(BoxPruningKernelAVX(ks))

\* the return: the arena is freed, the buffer's destructor hands the storage back
CompleteBoxPruningExit ==
    /\ entry = "complete"
    /\ epc = "exit"
    /\ host' = ReturnStorage(pob, host)
    /\ ppc' = "returned"
    /\ ret' = TRUE
    /\ epc' = "done"
    /\ UNCHANGED <<entry, kernel, list0, list1, Remap, Remap1, BoxSOA, nbpad,
                   BoxList0, BoxList1, ks>>
    /\ UNCHANGED <<mem, pob, junk, orig, emitted, oob, nreports>>
    /\ UNCHANGED mungeVars


(***************************************************************************)
(* BipartiteBoxPruning                                                     *)
(***************************************************************************)
MaxBip == 2

\* the palette boxes the two lists draw from
BipartitePalette == {Palette[1], Palette[2], Palette[4], Palette[5]}

\* all lists of at most n of them
BoxLists(n) == UNION {[1..m -> BipartitePalette] : m \in 0..n}

BipartiteInit ==
    /\ entry = "bipartite"
    /\ kernel = "none"
    /\ list0 \in BoxLists(MaxBip)
    /\ list1 \in BoxLists(MaxBip)
    /\ Remap = <<>> /\ Remap1 = <<>> /\ BoxSOA = <<>> /\ nbpad = 0
    /\ BoxList0 = <<>> /\ BoxList1 = <<>> /\ ks = <<>>
    /\ epc = "call"
    /\ ret = FALSE
    /\ host = [mEntries |-> 0, mCurNbEntries |-> 0, mMaxNbEntries |-> 0]
    /\ mem = <<>>
    /\ orig = [words |-> <<>>, cap |-> 0]
    /\ pob = <<>> /\ ppc = "host"
    \* what the uninitialised fields of the sentinel boxes happen to hold
    /\ junk \in {PosZero, FltMax}
    /\ emitted = <<>> /\ oob = FALSE /\ nreports = 0

intersects2D(a, b) ==
    IF \/ FloatLess(b.maxy, a.miny) \/ FloatLess(a.maxy, b.miny)
       \/ FloatLess(b.maxz, a.minz) \/ FloatLess(a.maxz, b.minz)
    THEN 0 ELSE 1

\* Container::Add: append one word, growing the storage when it is full
ContainerAdd(c, w) ==
    LET r == IF c.host.mCurNbEntries = c.host.mMaxNbEntries
             THEN ContainerResize(c.host, c.mem, Max(2, 2 * c.host.mMaxNbEntries))
             ELSE c
    IN  [host |-> [r.host EXCEPT !.mCurNbEntries = @ + 1],
         mem  |-> WriteWords(r.mem, r.host.mEntries + r.host.mCurNbEntries, <<w>>)]

\* BoxList = new AABB[nb+1]: the boxes in sorted order, then a slot of which
\* only mMin.x is set (to FLT_MAX)
SortedBoxes(list, remap) ==
    AsSeq([k \in 1..(Len(list) + 1) |->
            IF k <= Len(list) THEN list[remap[k] + 1]
            ELSE Box(FltMax, junk, junk, junk, junk, junk)])

\* "Checkings": if(!nb0 || !list0 || !nb1 || !list1) return false
BipartiteChecks(nb0, nb1) == nb0 = 0 \/ nb1 = 0

\* the call up to the first sweep: the checks, the sorts, the sorted copies
BipartiteBoxPruningEntry ==
    /\ entry = "bipartite"
    /\ epc = "call"
    /\ IF BipartiteChecks(Len(list0), Len(list1))
       THEN /\ ret' = FALSE
            /\ epc' = "done"
            /\ UNCHANGED <<Remap, Remap1, BoxList0, BoxList1, ks>>
       ELSE LET rm0 == RadixSort(PosList(list0))
                rm1 == RadixSort(PosList(list1))
            IN  /\ Remap' = rm0
                /\ Remap1' = rm1
                /\ BoxList0' = SortedBoxes(list0, rm0)
                /\ BoxList1' = SortedBoxes(list1, rm1)
                /\ ks' = [Index0 |-> 0, Running |-> 0, rdHi0 |-> 0, rdHi1 |-> 0,
                          wild |-> FALSE]
                /\ epc' = "sweep1"
                /\ UNCHANGED ret
    /\ UNCHANGED <<entry, kernel, list0, list1, BoxSOA, nbpad>>
    /\ UNCHANGED pobVars
    /\ UNCHANGED mungeVars

\* while(List[r].mMin.x < MinLimit) r++, on a list of n+1 slots; a read past
\* the last slot is wild and ends the model's loop
RECURSIVE AdvanceLess(_, _, _)
AdvanceLess(List, r, MinLimit) ==
    IF r >= Len(List) THEN [r |-> r, wild |-> TRUE]
    ELSE IF FloatLess(List[r + 1].minx, MinLimit) THEN AdvanceLess(List, r + 1, MinLimit)
    ELSE [r |-> r, wild |-> FALSE]

\* while(List[r].mMin.x <= MinLimit) r++
RECURSIVE AdvanceLessEq(_, _, _)
AdvanceLessEq(List, r, MinLimit) ==
    IF r >= Len(List) THEN [r |-> r, wild |-> TRUE]
    ELSE IF FloatLessEq(List[r + 1].minx, MinLimit) THEN AdvanceLessEq(List, r + 1, MinLimit)
    ELSE [r |-> r, wild |-> FALSE]

\* while(List[Index1].mMin.x <= MaxLimit) { if(intersects2D) hit; Index1++ }:
\* the slots hit, the slot the scan stopped at, and whether it read past the list
RECURSIVE ScanWindow(_, _, _, _, _)
ScanWindow(List, bx, j, MaxLimit, hits) ==
    IF j >= Len(List) THEN [j |-> j, hits |-> hits, wild |-> TRUE]
    ELSE IF FloatLessEq(List[j + 1].minx, MaxLimit)
         THEN ScanWindow(List, bx, j + 1, MaxLimit,
                  IF intersects2D(bx, List[j + 1]) = 1 THEN Append(hits, j) ELSE hits)
         ELSE [j |-> j, hits |-> hits, wild |-> FALSE]

\* pairs.Add(a).Add(b) for each pair of a list
RECURSIVE AddPairs(_, _, _)
AddPairs(c, ps, q) ==
    IF q > Len(ps) THEN c
    ELSE AddPairs(ContainerAdd(ContainerAdd(c, ps[q][1]), ps[q][2]), ps, q + 1)

\* the state after an outer iteration that found pairs ps
SweepIteration(adv, sc, ps, first) ==
    LET c == AddPairs([host |-> host, mem |-> mem], ps, 1)
        w == adv.wild \/ sc.wild
    IN  /\ host' = c.host
        /\ mem' = c.mem
        /\ emitted' = emitted \o AsSeq([k \in 1..(2 * Len(ps)) |-> ps[(k + 1) \div 2][2 - (k % 2)]])
        /\ ks' = [Index0 |-> ks.Index0 + 1,
                  Running |-> adv.r,
                  rdHi0 |-> IF first THEN Max(ks.rdHi0, ks.Index0) ELSE Max(ks.rdHi0, Max(adv.r, sc.j)),
                  rdHi1 |-> IF first THEN Max(ks.rdHi1, Max(adv.r, sc.j)) ELSE Max(ks.rdHi1, ks.Index0),
                  wild |-> ks.wild \/ w]
        \* after a wild read the call may go on or die
        /\ \/ UNCHANGED epc
           \/ w /\ epc' = "crashed"
        /\ UNCHANGED <<entry, kernel, list0, list1, Remap, Remap1, BoxSOA, nbpad,
                       BoxList0, BoxList1, ret>>
        /\ UNCHANGED <<pob, ppc, junk, orig, oob, nreports>>
        /\ UNCHANGED mungeVars

\* one iteration of the first while loop: boxes of list1 right of a box of list0
Sweep1Step ==
    /\ entry = "bipartite" /\ epc = "sweep1"
    /\ ks.Running < Len(list1) /\ ks.Index0 < Len(list0)
    /\ LET Box0 == BoxList0[ks.Index0 + 1]
           adv == AdvanceLess(BoxList1, ks.Running, Box0.minx)
           RIndex0 == Remap[ks.Index0 + 1]
           sc == IF adv.wild THEN [j |-> adv.r, hits |-> <<>>, wild |-> TRUE]
                 ELSE ScanWindow(BoxList1, Box0, adv.r, Box0.maxx, <<>>)
           ps == AsSeq([q \in 1..Len(sc.hits) |-> <<RIndex0, Remap1[sc.hits[q] + 1]>>])
       IN  SweepIteration(adv, sc, ps, TRUE)

\* the first loop ends; Index0 and the running address restart for the second
Sweep1Exit ==
    /\ entry = "bipartite" /\ epc = "sweep1"
    /\ ~(ks.Running < Len(list1) /\ ks.Index0 < Len(list0))
    /\ ks' = [ks EXCEPT !.Index0 = 0, !.Running = 0]
    /\ epc' = "sweep2"
    /\ UNCHANGED <<entry, kernel, list0, list1, Remap, Remap1, BoxSOA, nbpad,
                   BoxList0, BoxList1, ret>>
    /\ UNCHANGED pobVars
    /\ UNCHANGED mungeVars

\* one iteration of the second while loop: boxes of list0 strictly right of a
\* box of list1
Sweep2Step ==
    /\ entry = "bipartite" /\ epc = "sweep2"
    /\ ks.Running < Len(list0) /\ ks.Index0 < Len(list1)
    /\ LET Box1 == BoxList1[ks.Index0 + 1]
           adv == AdvanceLessEq(BoxList0, ks.Running, Box1.minx)
           RIndex1 == Remap1[ks.Index0 + 1]
           sc == IF adv.wild THEN [j |-> adv.r, hits |-> <<>>, wild |-> TRUE]
                 ELSE ScanWindow(BoxList0, Box1, adv.r, Box1.maxx, <<>>)
           ps == AsSeq([q \in 1..Len(sc.hits) |-> <<Remap[sc.hits[q] + 1], RIndex1>>])
       IN  SweepIteration(adv, sc, ps, FALSE)

\* the second loop ends: the copies are deleted, the call returns true
BipartiteBoxPruningExit ==
    /\ entry = "bipartite" /\ epc = "sweep2"
    /\ ~(ks.Running < Len(list0) /\ ks.Index0 < Len(list1))
    /\ ret' = TRUE
    /\ epc' = "done"
    /\ UNCHANGED <<entry, kernel, list0, list1, Remap, Remap1, BoxSOA, nbpad,
                   BoxList0, BoxList1, ks>>
    /\ UNCHANGED pobVars
    /\ UNCHANGED mungeVars

Init == (CompleteInit \/ BipartiteInit) /\ MungeIdle
Next ==
    \/ CompleteBoxPruningEntry
    \/ StepIntrinsics
    \/ StepSSE2
    \/ StepAVX
    \/ CompleteBoxPruningExit
    \/ BipartiteBoxPruningEntry
    \/ Sweep1Step
    \/ Sweep1Exit
    \/ Sweep2Step
    \/ BipartiteBoxPruningExit
Spec == Init /\ [][Next]_vars

\* the pairs of a flat word list
PairsOf(ws) == AsSeq([q \in 1..(Len(ws) \div 2) |-> <<ws[2 * q - 1], ws[2 * q]>>])
\* the pairs the caller finds in its container
OutPairs == PairsOf(ContainerWords(host, mem))
CompleteDone == entry = "complete" /\ epc = "done" /\ Len(list0) >= 1

\* C1: every two distinct overlapping boxes are reported exactly once, in one
\* of the two orders.
C1_Complete ==
    CompleteDone =>
        LET out == OutPairs
            outSet == {out[q] : q \in 1..Len(out)}
        IN  \* no pair is in the list twice
            /\ Cardinality(outSet) = Len(out)
            \* and of (i, j), (j, i) exactly one is in it
            /\ \A i, j \in 0..(Len(list0) - 1) :
                    (i < j /\ Overlap(list0[i + 1], list0[j + 1])) =>
                        (<<i, j>> \in outSet) # (<<j, i>> \in outSet)

\* C2: every reported pair names two boxes of the caller's list that overlap on
\* all three axes.
C2_Sound ==
    CompleteDone =>
        LET ws == ContainerWords(host, mem)
            out == PairsOf(ws)
        IN  /\ Len(ws) % 2 = 0
            /\ ws = emitted
            /\ \A q \in 1..Len(out) :
                 /\ out[q][1] \in 0..(Len(list0) - 1)
                 /\ out[q][2] \in 0..(Len(list0) - 1)
                 /\ Overlap(list0[out[q][1] + 1], list0[out[q][2] + 1])

\* the sorted position of a caller index
SortedPos(c) == CHOOSE p \in 0..(Len(list0) - 1) : Remap[p + 1] = c
LexLess(a, b) == a[1] < b[1] \/ (a[1] = b[1] /\ a[2] < b[2])

\* C4: no pair names the same box twice, and the scan of outer position i
\* starts at a sorted position above i.
C4_NoSelfPairs ==
    (entry = "complete" /\ epc \in {"kernel", "exit", "done"} /\ Len(list0) >= 1) =>
        /\ \A q \in 1..(Len(emitted) \div 2) : emitted[2 * q - 1] # emitted[2 * q]
        /\ ks.scanLo > ks.outer

\* C7: in sorted positions the emitted stream is strictly increasing in
\* lexicographic order of (i_sorted, j_sorted), whichever kernel ran.
C7_EmissionOrder ==
    CompleteDone =>
        LET out == OutPairs
            sp == AsSeq([q \in 1..Len(out) |-> <<SortedPos(out[q][1]), SortedPos(out[q][2])>>])
        IN  \A q \in 1..(Len(sp) - 1) : LexLess(sp[q], sp[q + 1])

\* the kernel of the given name, one outer iteration
KernelStep(kn, k) ==
    CASE kn = "Intrinsics" -> BoxPruningKernelIntrinsics(k)
      [] kn = "SSE2" -> BoxPruningKernelSSE2(k)
      [] kn = "AVX" -> BoxPruningKernelAVX(k)

RECURSIVE RepsPairs(_, _, _)
RepsPairs(id0, reps, q) ==
    IF q > Len(reps) THEN {}
    ELSE {<<id0, RemapRd(reps[q].base + b)>> :
             b \in {l \in 0..7 : (reps[q].mask \div (2 ^ l)) % 2 = 1}}
         \cup RepsPairs(id0, reps, q + 1)

\* the set of pairs a kernel emits on the arena, from loop state k on
RECURSIVE KernelPairSet(_, _)
KernelPairSet(kn, k) ==
    LET st == KernelStep(kn, k)
        here == RepsPairs(RemapRd(k.Box0Ptr), st.reps, 1)
    IN  IF st.done THEN here ELSE here \cup KernelPairSet(kn, st.ks)

KernelStart ==
    [outer |-> -1, Box0Ptr |-> 0, RunningPtr |-> 0, scanLo |-> 0,
     rdLo |-> 0, rdHi |-> 0, rmHi |-> 0]

\* C8: on the arena of the call, each of the other two kernels emits the set of
\* pairs the call's kernel produced.
C8_KernelsAgree ==
    CompleteDone =>
        LET ps == OutPairs
            out == {ps[q] : q \in 1..Len(ps)}
        IN  \A kn \in Kernels \ {kernel} : KernelPairSet(kn, KernelStart) = out

\* boxes touching through -0.0 / +0.0 on X were reported
C1_Witness ==
    /\ CompleteDone
    /\ Len(list0) >= 4
    /\ list0[1] = Palette[1]
    /\ list0[2] = Palette[2]
    /\ \E q \in 1..Len(OutPairs) : OutPairs[q] \in {<<0, 1>>, <<1, 0>>}

\* a list of boxes that overlap within two groups disjoint on X produced pairs
C2_Witness ==
    /\ CompleteDone
    /\ Len(list0) >= 5
    /\ list0[1] = Palette[3]
    /\ list0[2] = Palette[2]
    /\ Len(emitted) > 0
    /\ \E i, j \in 1..Len(list0) : ~Overlap(list0[i], list0[j])

\* boxes with equal MinX were swept and reported
C4_Witness ==
    /\ CompleteDone
    /\ Len(list0) >= 3
    /\ list0[1] = list0[2]
    /\ Len(emitted) >= 6

\* the 8-wide kernel emitted several batches for a list the sort reordered
C7_Witness ==
    /\ CompleteDone
    /\ kernel = "AVX"
    /\ Len(emitted) >= 40
    /\ \E p \in 1..Len(list0) : Remap[p] # p - 1

\* the 8-wide kernel ran its aligned first iteration at every offset
C8_Witness ==
    /\ CompleteDone
    /\ kernel = "AVX"
    /\ Len(list0) = MaxN
    /\ Len(emitted) = MaxN * (MaxN - 1)

BipartiteDone ==
    entry = "bipartite" /\ epc \in {"done", "crashed"} /\ Len(list0) >= 1 /\ Len(list1) >= 1

\* the X coordinates of every box of both lists are below FLT_MAX
BelowFltMax ==
    \A k \in 1..(Len(list0) + Len(list1)) :
        LET bx == IF k <= Len(list0) THEN list0[k] ELSE list1[k - Len(list0)]
        IN  FloatLess(bx.maxx, FltMax)

\* the bipartite output is exactly the overlapping (A-index, B-index) pairs, once each
BipartiteExact ==
    LET out == OutPairs
    IN  /\ epc = "done"
        /\ ~ks.wild
        /\ \A q \in 1..Len(out) :
             /\ out[q][1] \in 0..(Len(list0) - 1)
             /\ out[q][2] \in 0..(Len(list1) - 1)
             /\ Overlap(list0[out[q][1] + 1], list1[out[q][2] + 1])
        /\ \A a \in 0..(Len(list0) - 1) : \A b \in 0..(Len(list1) - 1) :
             Overlap(list0[a + 1], list1[b + 1]) =>
                Cardinality({q \in 1..Len(out) : out[q] = <<a, b>>}) = 1

\* C3 (as stated): for non-empty lists of boxes with min <= max the bipartite call
\* reports every overlapping (a, b) exactly once, as (A-index, B-index), and
\* nothing else.
C3_Bipartite == BipartiteDone => BipartiteExact

\* C3 restricted to boxes whose X extent stays below FLT_MAX
C3_BelowFltMax == (BipartiteDone /\ BelowFltMax) => BipartiteExact

\* C5 (as stated): an empty input yields an empty pair list and success.
C5_EmptyIsSuccess ==
    (epc = "done" /\ (Len(list0) = 0 \/ (entry = "bipartite" /\ Len(list1) = 0))) =>
        /\ ContainerWords(host, mem) = <<>>
        /\ ret = TRUE

\* C5 (amended): an empty input leaves the caller's container empty and
\* untouched, and the call returns false.
C5_EmptyReturnsFalse ==
    (epc = "done" /\ (Len(list0) = 0 \/ (entry = "bipartite" /\ Len(list1) = 0))) =>
        /\ ContainerWords(host, mem) = <<>>
        /\ host = [mEntries |-> 0, mCurNbEntries |-> 0, mMaxNbEntries |-> 0]
        /\ ppc = "host"
        /\ ret = FALSE

\* the complete call has returned on an empty list
C5_Witness ==
    /\ entry = "complete"
    /\ epc = "done"
    /\ Len(list0) = 0
    /\ ret = FALSE

\* an outer iteration of a kernel has run: ks.outer is its box i
KernelAdvanced == entry = "complete" /\ epc \in {"kernel", "exit"} /\ ks.outer >= 0

\* the running pointer as that iteration advanced it (the C++ RunningPtr, edi in
\* the assembly kernels, which store it back only if the loop goes on)
AdvancedPtr == ks.scanLo

\* MinX[k], the key in slot k of the MinX stream
MinX(k) == Rd(k, -2)

\* C11 (as stated): once the running pointer r has been advanced for outer box i,
\* every sorted position k < r has MinX[k] < MinX[i], ties included.
C11_StrictlyBelow ==
    KernelAdvanced => \A k \in 0..(AdvancedPtr - 1) : MinX(k) < MinX(ks.outer)

\* C11 read with r as the slot the advance loop stopped at (RunningPtr - 1)
C11_StrictlyBelowStop ==
    KernelAdvanced => \A k \in 0..(AdvancedPtr - 2) : MinX(k) < MinX(ks.outer)

\* the running pointer after the advance for outer box i is i + 1: no position
\* below it has a larger MinX than box i, no box from it on has a smaller one
RunningPtrIsNext ==
    KernelAdvanced =>
        /\ AdvancedPtr = ks.outer + 1
        /\ \A k \in 0..(AdvancedPtr - 1) : MinX(k) <= MinX(ks.outer)
        /\ \A k \in AdvancedPtr..(Len(list0) - 1) : MinX(k) >= MinX(ks.outer)

\* the running pointer does not move back from one outer iteration to the next
RunningPtrMonotone ==
    (entry = "complete" /\ epc = "kernel" /\ epc' \in {"kernel", "exit"}) =>
        /\ ks'.scanLo >= ks.scanLo
        /\ ks'.RunningPtr >= ks.RunningPtr

\* C11 (amended): after the advance for outer box i the running pointer is i + 1;
\* every sorted position k < r has MinX[k] <= MinX[i] (k = i and boxes tied with
\* i are below r), every box from r on has MinX >= MinX[i], and r never
\* decreases from one outer iteration to the next.
C11_RunningPtr == []RunningPtrIsNext /\ [][RunningPtrMonotone]_vars

\* the 4-wide assembly kernel advanced the running pointer for a box whose MinX
\* ties with the box before it
C11_Witness ==
    /\ KernelAdvanced
    /\ kernel = "SSE2"
    /\ ks.outer >= 2
    /\ MinX(ks.outer - 1) = MinX(ks.outer)
    /\ AdvancedPtr = ks.outer + 1
    /\ Len(list0) >= 5

\* lanes per load of the kernel that runs
Lanes == IF kernel = "AVX" THEN 8 ELSE 4

\* the arena of the call: NP = (N + 15) & ~7 slots per stream, the slots from N
\* on holding the sentinels
ArenaPadded ==
    /\ nbpad = And32(Len(list0) + 15, -8)
    /\ nbpad >= Len(list0) + 8
    /\ Len(BoxSOA) = 6 * nbpad
    /\ \A k \in Len(list0)..(nbpad - 1) : MinX(k) = MaxInt32 /\ Rd(k, -3) = MinInt32

\* C12: on the padded arena every stream slot an outer iteration reads (running
\* pointer advance, lookahead MinX[j + LANES - 1], main and tail loads, the
\* aligned-down first load of the 8-wide kernel) is in [0, NP), every Remap index
\* it reads is in [0, N], and the forward scan ends within the first LANES slots
\* of the padding, for every N >= 1 and both lane counts.
C12_ArenaReads ==
    KernelAdvanced =>
        /\ ArenaPadded
        /\ 0 <= ks.rdLo
        /\ ks.rdHi < nbpad
        /\ ks.rdHi <= Len(list0) + Lanes - 1
        /\ 0 <= ks.rmHi /\ ks.rmHi <= Len(list0)

\* the 8-wide kernel, started below an aligned-down first load, read the last
\* slot of the arena's streams
C12_Witness ==
    /\ KernelAdvanced
    /\ kernel = "AVX"
    /\ Len(list0) = 16
    /\ ks.rdHi = nbpad - 1
    /\ ks.rdLo < ks.scanLo
    /\ ks.rdLo < ks.outer

\* the bipartite call is in or past its sweeps
BipartiteSwept == entry = "bipartite" /\ epc \in {"sweep1", "sweep2", "done", "crashed"} /\ ks # <<>>

\* no read of BoxList0 above slot nb0, none of BoxList1 above slot nb1
SentinelStops ==
    /\ ks.rdHi0 <= Len(list0)
    /\ ks.rdHi1 <= Len(list1)
    /\ ~ks.wild
    /\ epc # "crashed"

\* C13 (as stated): for all boxes with finite coordinates up to and including
\* FLT_MAX and min <= max, the running-pointer loops and the forward scans of
\* both sweeps never read BoxList0 above index nb0 nor BoxList1 above index nb1.
C13_SentinelBound == BipartiteSwept => SentinelStops

\* C13 restricted to boxes whose X extent stays below FLT_MAX
C13_BelowFltMax == (BipartiteSwept /\ BelowFltMax) => SentinelStops

====
